---------------------------- MODULE Spec2Model ----------------------------
(***************************************************************************)
(* The news listener service: Temporal signal workflow, in-process news    *)
(* queue, single-consumer LLM analysis loop, OpenRouter adapter and the    *)
(* PostgreSQL gateway (src/backend/services/listener, src/unnamed/part_004)*)
(*                                                                         *)
(* Strings model .NET strings; a nullable reference that is null is the    *)
(* string NullStr.  Instants are integers; DateTime.UtcNow is an instant   *)
(* in 1..MaxClock, parsed dates are instant 0.  Confidence is a double,    *)
(* modelled in units of 10^-5 (100000 is 1.0).                             *)
(***************************************************************************)
EXTENDS Integers, Sequences, FiniteSets, TLC

VARIABLES
    store,            \* analyzed_news table: a set of rows
    upserted,         \* history: ids for which an upsert statement succeeded
    firstRaw,         \* history: id -> raw columns of the first successful upsert
    lastEnr,          \* history: id -> enrichment columns of the last successful upsert
    raced,            \* history: ids upserted by a call that was in flight while another
                      \* call's statement for the same id was executed
    rewritten,        \* history: ids upserted again by a record whose raw values differ
                      \* from the first one's and whose enrichment differs from the last one's
    act,              \* NewsAnalysisActivity executions: activity -> [pc, sd, rec]
    receivedSignals,  \* NewsListenerWorkflow._receivedSignals
    newsQueue,        \* the static news queue behind NewsListenerWorkflow.TryDequeueNews
    lastSubmit,       \* history: the last envelope handed to HandleNewsSignal, its outcome
                      \* and whether the host was shutting down and the loop in its idle delay
    loopPc,           \* NewsAnalysisBackgroundService position
    loopItem,         \* the SignalData being processed by ProcessNewsSignal
    loopResp,         \* history: the adapter response received for loopItem
    loopRec,          \* the AnalyzedNewsRecord built for loopItem
    storeAtDequeue,   \* history: the table when loopItem was dequeued
    processedCount,   \* history: items dequeued by the loop
    completedCount,   \* history: calls of ProcessNewsSignal that have returned
    handed,           \* history: the items handed to ProcessNewsSignal, in order
    lastOutcome,      \* history: how the last call of ProcessNewsSignal ended
    loopToken,        \* NewsAnalysisBackgroundService stoppingToken cancelled
    workerToken,      \* Worker stoppingToken cancelled
    workerPc,         \* Worker.ExecuteAsync position
    instances,        \* the engine's workflow instances: workflow id -> status
    handleId,         \* the workflow id behind workflowHandle
    described,        \* history: what DescribeAsync answered during startup
    created,          \* history: the workflow ids this process started an instance under
    startError,       \* history: the exception that left the startup block
    cancelRequested,  \* CancelAsync was accepted by the engine
    shutdownLog,      \* log entries written by StopWorkflowAsync
    stopTrace,        \* history: the engine calls StopWorkflowAsync has made
    hostPc,           \* generic host: running, stopping its services, exited
    drainExpired      \* the host's shutdown timeout has elapsed

gatewayVars == <<store, upserted, firstRaw, lastEnr, raced, rewritten>>
activityVars == <<act>>
receiverVars == <<receivedSignals, newsQueue, lastSubmit>>
loopVars == <<loopPc, loopItem, loopResp, loopRec, storeAtDequeue, processedCount,
             completedCount, handed, lastOutcome>>
engineVars == <<instances, handleId, described, created, startError>>
workerVars == <<workerPc, engineVars, cancelRequested, shutdownLog, stopTrace>>
hostVars == <<hostPc, drainExpired, loopToken, workerToken>>
vars == <<gatewayVars, activityVars, receiverVars, loopVars, workerVars, hostVars>>

(***************************************************************************)
(* Bounds of the model.                                                    *)
(***************************************************************************)
MaxClock == 1
MaxSignals == 2

NullStr == "<null>"
None == [none |-> TRUE]

Instants == 1..MaxClock
\* the activity executions that may run at the same time
Activities == {"act1", "act2"}

(***************************************************************************)
(* Inbound envelopes: SignalData { id, timestamp, data: RSSFeedRecord }.   *)
(***************************************************************************)
RSSFeedRecord(title, description, link, published, source, guid, category, sentiment) ==
    [title |-> title, description |-> description, link |-> link,
     published_at |-> published, feed_url |-> source, guid |-> guid,
     category |-> category, sentiment |-> sentiment]

SignalData(id, data) == [id |-> id, timestamp |-> "ts", data |-> data]

\* the envelope id is the sender's, the guid is the feed item's
EnvA == SignalData("sig-1",
    RSSFeedRecord("Central bank raises key rate", "descA", "linkA",
                  "2024-05-01T10:00:00Z", "Reuters", "n1", "economy", "positive"))
\* the same item sent again with different raw values
EnvB == SignalData("n1",
    RSSFeedRecord("Key rate raised (updated)", "descB", "linkB",
                  "not-a-date", "Interfax", "n1", NullStr, NullStr))
EnvC == SignalData("n2",
    RSSFeedRecord("Oil prices fall", "descC", "linkC",
                  "2024-05-01T10:00:00Z", "TASS", "n2", "markets", NullStr))
\* an envelope whose id (and guid) is empty
EnvNoId == SignalData("",
    RSSFeedRecord("Untitled id", "descD", "linkD",
                  "2024-05-01T10:00:00Z", "Reuters", "", NullStr, NullStr))
\* an envelope whose payload title is empty
EnvNoTitle == SignalData("n3",
    RSSFeedRecord("", "descE", "linkE",
                  "", "Reuters", "n3", NullStr, NullStr))

Envelopes == {EnvA, EnvB, EnvC, EnvNoId, EnvNoTitle}
GatewayEnvelopes == {EnvA, EnvB, EnvC}
RowIds == {e.data.guid : e \in Envelopes}

(***************************************************************************)
(* Adapter responses.  A response is a transport failure, or an HTTP       *)
(* answer with a status and a body; a body is text that does not parse,    *)
(* or an LLMResponse whose first choice carries message content; content   *)
(* is text that does not parse, or a JSON object: a function from the      *)
(* property names it holds to their values.                                *)
(***************************************************************************)
FullContent(tickers, sector, industry, sentiment, entities, summary, confidence) ==
    [tickers |-> tickers, sector |-> sector, industry |-> industry,
     sentiment |-> sentiment, entities |-> entities, summary |-> summary,
     confidence |-> confidence]

Without(obj, name) == [k \in (DOMAIN obj) \ {name} |-> obj[k]]

ContentA == FullContent(<<"SBER">>, "Finance", "Banks", "positive",
                        <<"Central bank">>, "sumA", 90000)
ContentB == FullContent(<<"GAZP", "SBER">>, "Energy", "Oil", "neutral",
                        <<>>, "sumB", 95000)
ContentNoSector == Without(ContentA, "sector")
ContentNoSentiment == Without(ContentB, "sentiment")
ContentHighConfidence == [ContentA EXCEPT !.confidence = 150000]
ContentNegConfidence == [ContentB EXCEPT !.confidence = -20000]
ContentHugeConfidence == [ContentA EXCEPT !.confidence = 1200000]
ContentFineConfidence == [ContentB EXCEPT !.confidence = 12345]

JsonObjects == {ContentA, ContentB, ContentNoSector, ContentNoSentiment,
                ContentHighConfidence, ContentNegConfidence,
                ContentHugeConfidence, ContentFineConfidence}

Transport == [kind |-> "transport"]
HttpError == [kind |-> "http", success |-> FALSE]
HttpBody(body) == [kind |-> "http", success |-> TRUE, body |-> body]
BodyUnparsable == [json |-> "unparsable"]
BodyNoChoices == [json |-> "object", choices |-> <<>>]
BodyContent(content) == [json |-> "object", choices |-> <<[message |-> [content |-> content]]>>]
ContentNull == [text |-> "null"]
ContentEmpty == [text |-> "empty"]
ContentUnparsable == [text |-> "unparsable"]
ContentJsonNull == [text |-> "json-null"]
ContentObject(obj) == [text |-> "json-object", object |-> obj]

FailedResponses ==
    {Transport, HttpError, HttpBody(BodyUnparsable), HttpBody(BodyNoChoices),
     HttpBody(BodyContent(ContentNull)), HttpBody(BodyContent(ContentEmpty)),
     HttpBody(BodyContent(ContentUnparsable)), HttpBody(BodyContent(ContentJsonNull))}
ObjectResponses == {HttpBody(BodyContent(ContentObject(o))) : o \in JsonObjects}
Responses == FailedResponses \cup ObjectResponses
GatewayResponses == {Transport, HttpBody(BodyContent(ContentObject(ContentA))),
                     HttpBody(BodyContent(ContentObject(ContentB)))}


(***************************************************************************)
(* Enrichment adapter: LLMService.AnalyzeNewsAsync as a function of the    *)
(* HTTP outcome.  Every exception is caught and turned into null.          *)
(***************************************************************************)
Prop(obj, name, default) == IF name \in DOMAIN obj THEN obj[name] ELSE default

\* JsonSerializer.Deserialize<NewsAnalysisResponse>: a property the JSON
\* object does not hold keeps the initializer of the class.
DeserializeAnalysis(obj) ==
    [tickers |-> Prop(obj, "tickers", <<>>),
     sector |-> Prop(obj, "sector", ""),
     industry |-> Prop(obj, "industry", ""),
     sentiment |-> Prop(obj, "sentiment", ""),
     entities |-> Prop(obj, "entities", <<>>),
     summary |-> Prop(obj, "summary", ""),
     confidence |-> Prop(obj, "confidence", 0)]

\* a plausible bug: a failed call yields a placeholder result instead of null
AnalyzeNewsAsync_Placeholder(resp) ==
    IF resp \in ObjectResponses
    THEN DeserializeAnalysis(resp.body.choices[1].message.content.object)
    ELSE DeserializeAnalysis(<<>>)

AnalyzeNewsAsync(resp) ==
    IF resp.kind = "transport" THEN None
    ELSE IF ~resp.success THEN None
    ELSE IF resp.body.json = "unparsable" THEN None
    ELSE IF resp.body.choices = <<>> THEN None
    ELSE LET content == resp.body.choices[1].message.content IN
         IF content.text = "null" THEN None
         ELSE IF content.text \in {"empty", "unparsable"} THEN None
         ELSE IF content.text = "json-null" THEN None
         ELSE DeserializeAnalysis(content.object)

(***************************************************************************)
(* ConvertToAnalyzedNewsRecord (the loop's and the activity's copies are   *)
(* the same text).                                                         *)
(***************************************************************************)
\* DateTime.TryParse on the published_at strings of the envelopes
TryParseDate(s) == IF s = "2024-05-01T10:00:00Z"
                   THEN [ok |-> TRUE, value |-> 0]
                   ELSE [ok |-> FALSE, value |-> 0]

\* s ?? string.Empty
OrEmpty(s) == IF s = NullStr THEN "" ELSE s

\* JsonSerializer.Serialize of a list of strings
Serialize(list) == [jsonArray |-> list]

ConvertToAnalyzedNewsRecord(signalData, analysis, now) ==
    LET d == signalData.data
        parsed == TryParseDate(d.published_at)
        publishedAt == IF d.published_at # "" /\ d.published_at # NullStr /\ parsed.ok
                       THEN parsed.value ELSE now
    IN [id |-> d.guid,
        title |-> d.title,
        description |-> d.description,
        link |-> d.link,
        published_at |-> publishedAt,
        source |-> d.feed_url,
        category |-> OrEmpty(d.category),
        original_sentiment |-> OrEmpty(d.sentiment),
        analyzed_sentiment |-> analysis.sentiment,
        sector |-> analysis.sector,
        industry |-> analysis.industry,
        tickers |-> Serialize(analysis.tickers),
        entities |-> Serialize(analysis.entities),
        summary |-> analysis.summary,
        confidence |-> analysis.confidence,
        analyzed_at |-> now]

(***************************************************************************)
(* Persistence gateway: PostgreSQLService.SaveAnalyzedNewsAsync and the    *)
(* analyzed_news table.                                                    *)
(***************************************************************************)
RawColumns == {"title", "description", "link", "published_at", "source",
               "category", "original_sentiment"}
EnrichmentColumns == {"analyzed_sentiment", "sector", "industry", "tickers",
                      "entities", "summary", "confidence", "analyzed_at"}

Raw(row) == [c \in RawColumns |-> row[c]]
Enr(row) == [c \in EnrichmentColumns |-> row[c]]

Abs(n) == IF n < 0 THEN -n ELSE n

\* confidence DECIMAL(5,4): the value rounded to four decimals, half away
\* from zero (10 units of 10^-5); five digits in all, so |value| < 10.
Numeric54(c) == LET r == ((Abs(c) + 5) \div 10) * 10
                IN IF c < 0 THEN -r ELSE r
NumericOverflow(c) == Abs(Numeric54(c)) >= 1000000

\* value ?? DBNull.Value
OrDbNull(s) == IF s = NullStr THEN "<dbnull>" ELSE s

\* the parameters of the statement, as the table stores them
BindParameters(record) ==
    [id |-> record.id,
     title |-> record.title,
     description |-> OrDbNull(record.description),
     link |-> OrDbNull(record.link),
     published_at |-> record.published_at,
     source |-> OrDbNull(record.source),
     category |-> OrDbNull(record.category),
     original_sentiment |-> OrDbNull(record.original_sentiment),
     analyzed_sentiment |-> OrDbNull(record.analyzed_sentiment),
     sector |-> OrDbNull(record.sector),
     industry |-> OrDbNull(record.industry),
     tickers |-> record.tickers,
     entities |-> record.entities,
     summary |-> OrDbNull(record.summary),
     confidence |-> Numeric54(record.confidence),
     analyzed_at |-> record.analyzed_at]

\* plausible bugs in the ON CONFLICT clause
OnConflictColumns_WithTitle ==
    {"title", "analyzed_sentiment", "sector", "industry", "tickers", "entities",
     "summary", "confidence", "analyzed_at"}
OnConflictColumns_NoConfidence ==
    {"analyzed_sentiment", "sector", "industry", "tickers", "entities",
     "summary", "analyzed_at"}

\* ON CONFLICT (id) DO UPDATE SET ...
OnConflictColumns ==
    {"analyzed_sentiment", "sector", "industry", "tickers", "entities",
     "summary", "confidence", "analyzed_at"}

\* a plausible bug: a plain INSERT into a table without the key
UpsertRow_PlainInsert(table, row) == table \cup {row}

\* INSERT ... ON CONFLICT (id) DO UPDATE, one atomic statement
UpsertRow(table, row) ==
    LET existing == {r \in table : r.id = row.id}
    IN IF existing = {}
       THEN table \cup {row}
       ELSE (table \ existing) \cup
            {[c \in DOMAIN r |-> IF c \in OnConflictColumns THEN row[c] ELSE r[c]]
               : r \in existing}

\* the statement fails in the database (numeric field overflow)
DbRejects(record) == NumericOverflow(record.confidence)

\* command.ExecuteNonQueryAsync succeeds for record; overlapped: another
\* call's statement for the same id was executed while this call was in flight
ExecuteUpsert(record, overlapped) ==
    LET row == BindParameters(record) IN
    /\ ~DbRejects(record)
    /\ store' = UpsertRow(store, row)
    /\ upserted' = upserted \cup {row.id}
    /\ firstRaw' = IF row.id \in upserted THEN firstRaw
                   ELSE [firstRaw EXCEPT ![row.id] = Raw(row)]
    /\ lastEnr' = [lastEnr EXCEPT ![row.id] = Enr(row)]
    /\ raced' = IF overlapped THEN raced \cup {row.id} ELSE raced
    /\ rewritten' = IF /\ row.id \in upserted
                       /\ firstRaw[row.id] # Raw(row)
                       /\ lastEnr[row.id] # Enr(row)
                    THEN rewritten \cup {row.id} ELSE rewritten

(***************************************************************************)
(* NewsAnalysisActivity.AnalyzeAndSaveNewsAsync: executions run            *)
(* concurrently, each analyzes one envelope and saves the result.          *)
(***************************************************************************)
ActIdle == [pc |-> "idle"]

ActivityStart(a, signalData) ==
    /\ act[a].pc = "idle"
    /\ act' = [act EXCEPT ![a] = [pc |-> "analyze", sd |-> signalData]]
    /\ UNCHANGED <<gatewayVars, receiverVars, loopVars, workerVars, hostVars>>

\* AnalyzeNewsAsync returns: null ends the activity, a result is converted
\* and SaveAnalyzedNewsAsync is entered (OpenAsync, then the statement)
ActivityAnalyzed(a, resp, now) ==
    /\ act[a].pc = "analyze"
    /\ LET analysis == AnalyzeNewsAsync(resp) IN
       act' = [act EXCEPT ![a] =
                 IF analysis = None THEN ActIdle
                 ELSE [pc |-> "save", overlapped |-> FALSE,
                       rec |-> ConvertToAnalyzedNewsRecord(act[a].sd, analysis, now)]]
    /\ UNCHANGED <<gatewayVars, receiverVars, loopVars, workerVars, hostVars>>

\* command.ExecuteNonQueryAsync succeeds
ActivitySaved(a) ==
    /\ act[a].pc = "save"
    /\ ExecuteUpsert(act[a].rec, act[a].overlapped)
    /\ act' = [b \in Activities |->
                 IF b = a THEN ActIdle
                 ELSE IF act[b].pc = "save" /\ act[b].rec.id = act[a].rec.id
                      THEN [act[b] EXCEPT !.overlapped = TRUE]
                      ELSE act[b]]
    /\ UNCHANGED <<receiverVars, loopVars, workerVars, hostVars>>

\* OpenAsync or ExecuteNonQueryAsync throws: logged, rethrown, nothing written
ActivitySaveFails(a) ==
    /\ act[a].pc = "save"
    /\ act' = [act EXCEPT ![a] = ActIdle]
    /\ UNCHANGED <<gatewayVars, receiverVars, loopVars, workerVars, hostVars>>

(***************************************************************************)
(* The durable-execution engine as Worker.ExecuteAsync uses it: workflow   *)
(* instances by workflow id.  Worker leaves the id reuse policy of         *)
(* WorkflowOptions unset, so StartWorkflowAsync fails with                 *)
(* WorkflowAlreadyStartedException exactly when an instance with the id is *)
(* Running; any call fails with an RpcException when the engine cannot be  *)
(* reached.                                                                *)
(***************************************************************************)
\* const string workflowId = "news-feed-workflow"
workflowId == <<"news-feed-workflow">>

\* DateTime.UtcNow has finer resolution than the second the id is formatted to
TicksPerSecond == 2

\* {DateTime.UtcNow:yyyyMMdd-HHmmss}
FormatSeconds(now) == now \div TicksPerSecond

\* $"{workflowId}-{DateTime.UtcNow:yyyyMMdd-HHmmss}"
NewWorkflowId(now) == Append(workflowId, FormatSeconds(now))

WorkflowIds == {workflowId} \cup {NewWorkflowId(now) : now \in Instants}

\* WorkflowExecutionStatus of an instance that is no longer running
ClosedStatuses == {"Completed", "Failed", "Canceled", "Terminated",
                   "ContinuedAsNew", "TimedOut"}

\* the ways an instance running NewsListenerWorkflow is closed from outside
\* the workflow code: a cancellation request, a termination, a timeout
ExternalCloses == {"Canceled", "Terminated", "TimedOut"}

\* workflowHandle == null
NoHandle == <<>>

\* the status of the instance behind workflowHandle
wfStatus == IF handleId = NoHandle THEN "NotStarted" ELSE instances[handleId]

\* StartWorkflowAsync(RunAsync, new WorkflowOptions { Id = id, ... })
StartWorkflowAsync(engine, id, reachable) ==
    IF ~reachable
    THEN [started |-> FALSE, error |-> "RpcException", engine |-> engine]
    ELSE IF engine[id] = "Running"
    THEN [started |-> FALSE, error |-> "WorkflowAlreadyStartedException", engine |-> engine]
    ELSE [started |-> TRUE, error |-> "",
          engine |-> [engine EXCEPT ![id] = "Running"]]

(***************************************************************************)
(* Signal receiver: NewsListenerWorkflow.HandleNewsSignal, run by the      *)
(* Temporal worker hosted in this process while the instance is Running.   *)
(***************************************************************************)
\* "News is added to in-memory processing queue": the producer side of the
\* static queue the loop reads through TryDequeueNews
EnqueueNews(queue, signalData) == Append(queue, signalData)

\* NewsListenerWorkflow.TryDequeueNews(out newsData)
TryDequeueNews(queue) ==
    IF queue = <<>>
    THEN [found |-> FALSE, newsData |-> None, rest |-> queue]
    ELSE [found |-> TRUE, newsData |-> Head(queue), rest |-> Tail(queue)]

ProcessAlive == hostPc # "exited"

\* a plausible bug: an envelope equal to a recorded one is not recorded again
HandleNewsSignal_Distinct(signalData) ==
    /\ ProcessAlive
    /\ wfStatus = "Running"
    /\ Len(receivedSignals) < MaxSignals
    /\ receivedSignals' = IF \E i \in DOMAIN receivedSignals : receivedSignals[i] = signalData
                          THEN receivedSignals
                          ELSE Append(receivedSignals, signalData)
    /\ newsQueue' = EnqueueNews(newsQueue, signalData)
    /\ lastSubmit' = [envelope |-> signalData, outcome |-> "accepted",
                      afterShutdown |-> hostPc # "running",
                      loopIdle |-> loopPc = "idle"]
    /\ UNCHANGED <<gatewayVars, activityVars, loopVars, workerVars, hostVars>>

HandleNewsSignal(signalData) ==
    /\ ProcessAlive
    /\ wfStatus = "Running"
    /\ Len(receivedSignals) < MaxSignals
    /\ receivedSignals' = Append(receivedSignals, signalData)
    /\ newsQueue' = EnqueueNews(newsQueue, signalData)
    /\ lastSubmit' = [envelope |-> signalData, outcome |-> "accepted",
                      afterShutdown |-> hostPc # "running",
                      loopIdle |-> loopPc = "idle"]
    /\ UNCHANGED <<gatewayVars, activityVars, loopVars, workerVars, hostVars>>

\* [WorkflowQuery] GetSignalsCount
GetSignalsCount == Len(receivedSignals)

\* GetLatestSignals(int count = 10)
DefaultLatestCount == 10

\* _receivedSignals.TakeLast(count).ToList()
TakeLast(list, count) ==
    LET taken == IF count <= 0 THEN 0
                 ELSE IF count > Len(list) THEN Len(list) ELSE count
    IN SubSeq(list, Len(list) - taken + 1, Len(list))

\* [WorkflowQuery] GetLatestSignals
GetLatestSignals(count) == TakeLast(receivedSignals, count)

(***************************************************************************)
(* Enrichment worker loop: NewsAnalysisBackgroundService.ProcessNewsQueue  *)
(* and ProcessNewsSignal.  The catch of ProcessNewsQueue is never entered: *)
(* ProcessNewsSignal catches everything, and Task.Delay throws only when   *)
(* the token is cancelled, which the exception filter excludes.            *)
(***************************************************************************)
\* while (!stoppingToken.IsCancellationRequested)
LoopCheck ==
    /\ ProcessAlive
    /\ loopPc = "check"
    /\ loopPc' = IF loopToken THEN "done" ELSE "dequeue"
    /\ UNCHANGED <<loopItem, loopResp, loopRec, storeAtDequeue, processedCount>>
    /\ UNCHANGED <<completedCount, handed, lastOutcome>>
    /\ UNCHANGED <<gatewayVars, activityVars, receiverVars, workerVars, hostVars>>

\* a plausible bug: ProcessNewsSignal is started and not awaited
LoopDequeue_NotAwaited ==
    /\ ProcessAlive
    /\ loopPc = "dequeue"
    /\ IF newsQueue # <<>>
       THEN /\ newsQueue' = Tail(newsQueue)
            /\ loopItem' = Head(newsQueue)
            /\ handed' = Append(handed, Head(newsQueue))
            /\ loopPc' = "check"
            /\ loopResp' = None
            /\ storeAtDequeue' = store
            /\ processedCount' = processedCount + 1
       ELSE /\ loopPc' = "idle"
            /\ UNCHANGED <<newsQueue, loopItem, loopResp, storeAtDequeue, processedCount>>
            /\ UNCHANGED handed
    /\ UNCHANGED <<loopRec, completedCount, lastOutcome, receivedSignals, lastSubmit>>
    /\ UNCHANGED <<gatewayVars, activityVars, workerVars, hostVars>>

\* a plausible bug: the newest item is taken (a stack instead of a queue)
LoopDequeue_TakesNewest ==
    /\ ProcessAlive
    /\ loopPc = "dequeue"
    /\ IF newsQueue # <<>>
       THEN /\ newsQueue' = SubSeq(newsQueue, 1, Len(newsQueue) - 1)
            /\ loopItem' = newsQueue[Len(newsQueue)]
            /\ handed' = Append(handed, newsQueue[Len(newsQueue)])
            /\ loopPc' = "analyze"
            /\ loopResp' = None
            /\ storeAtDequeue' = store
            /\ processedCount' = processedCount + 1
       ELSE /\ loopPc' = "idle"
            /\ UNCHANGED <<newsQueue, loopItem, loopResp, storeAtDequeue, processedCount>>
            /\ UNCHANGED handed
    /\ UNCHANGED <<loopRec, completedCount, lastOutcome, receivedSignals, lastSubmit>>
    /\ UNCHANGED <<gatewayVars, activityVars, workerVars, hostVars>>

\* a plausible bug: the item is read and left on the queue
LoopDequeue_Peek ==
    /\ ProcessAlive
    /\ loopPc = "dequeue"
    /\ IF newsQueue # <<>>
       THEN /\ newsQueue' = newsQueue
            /\ loopItem' = Head(newsQueue)
            /\ handed' = Append(handed, Head(newsQueue))
            /\ loopPc' = "analyze"
            /\ loopResp' = None
            /\ storeAtDequeue' = store
            /\ processedCount' = processedCount + 1
       ELSE /\ loopPc' = "idle"
            /\ UNCHANGED <<newsQueue, loopItem, loopResp, storeAtDequeue, processedCount>>
            /\ UNCHANGED handed
    /\ UNCHANGED <<loopRec, completedCount, lastOutcome, receivedSignals, lastSubmit>>
    /\ UNCHANGED <<gatewayVars, activityVars, workerVars, hostVars>>

\* TryDequeueNews: an item starts ProcessNewsSignal (the adapter request is
\* sent), an empty queue starts Task.Delay(2 s, stoppingToken)
LoopDequeue ==
    /\ ProcessAlive
    /\ loopPc = "dequeue"
    /\ LET got == TryDequeueNews(newsQueue) IN
       IF got.found
       THEN /\ newsQueue' = got.rest
            /\ loopItem' = got.newsData
            /\ loopPc' = "analyze"
            /\ loopResp' = None
            /\ storeAtDequeue' = store
            /\ processedCount' = processedCount + 1
            /\ handed' = Append(handed, got.newsData)
       ELSE /\ loopPc' = "idle"
            /\ UNCHANGED <<newsQueue, loopItem, loopResp, storeAtDequeue, processedCount>>
            /\ UNCHANGED handed
    /\ UNCHANGED <<loopRec, completedCount, lastOutcome, receivedSignals, lastSubmit>>
    /\ UNCHANGED <<gatewayVars, activityVars, workerVars, hostVars>>

\* a plausible bug: the loop returns when it finds the queue empty
LoopIdleElapsed_Returns ==
    /\ ProcessAlive
    /\ loopPc = "idle"
    /\ loopPc' = "done"
    /\ UNCHANGED <<loopItem, loopResp, loopRec, storeAtDequeue, processedCount>>
    /\ UNCHANGED <<completedCount, handed, lastOutcome>>
    /\ UNCHANGED <<gatewayVars, activityVars, receiverVars, workerVars, hostVars>>

\* the idle delay elapses
LoopIdleElapsed ==
    /\ ProcessAlive
    /\ loopPc = "idle"
    /\ loopPc' = "check"
    /\ UNCHANGED <<loopItem, loopResp, loopRec, storeAtDequeue, processedCount>>
    /\ UNCHANGED <<completedCount, handed, lastOutcome>>
    /\ UNCHANGED <<gatewayVars, activityVars, receiverVars, workerVars, hostVars>>

\* the token is cancelled during the idle delay: OperationCanceledException
\* leaves ProcessNewsQueue
LoopIdleCancelled ==
    /\ ProcessAlive
    /\ loopPc = "idle"
    /\ loopToken
    /\ loopPc' = "done"
    /\ UNCHANGED <<loopItem, loopResp, loopRec, storeAtDequeue, processedCount>>
    /\ UNCHANGED <<completedCount, handed, lastOutcome>>
    /\ UNCHANGED <<gatewayVars, activityVars, receiverVars, workerVars, hostVars>>

\* llmService.AnalyzeNewsAsync returns (no token is passed to it): null is
\* logged and the item dropped, a result is converted and the save entered
LoopAnalyzed(resp, now) ==
    /\ ProcessAlive
    /\ loopPc = "analyze"
    /\ loopResp' = resp
    /\ LET analysis == AnalyzeNewsAsync(resp) IN
       IF analysis = None
       THEN /\ loopPc' = "check"
            /\ loopItem' = None
            /\ loopRec' = None
            /\ completedCount' = completedCount + 1
            /\ lastOutcome' = "AdapterError"
       ELSE /\ loopPc' = "save"
            /\ loopRec' = ConvertToAnalyzedNewsRecord(loopItem, analysis, now)
            /\ UNCHANGED <<loopItem, completedCount, lastOutcome>>
    /\ UNCHANGED <<storeAtDequeue, processedCount, handed>>
    /\ UNCHANGED <<gatewayVars, activityVars, receiverVars, workerVars, hostVars>>

\* dbService.SaveAnalyzedNewsAsync succeeds (no token is passed to it)
LoopSaved ==
    /\ ProcessAlive
    /\ loopPc = "save"
    /\ ExecuteUpsert(loopRec, FALSE)
    /\ loopPc' = "check"
    /\ loopItem' = None
    /\ loopRec' = None
    /\ completedCount' = completedCount + 1
    /\ lastOutcome' = "Saved"
    /\ UNCHANGED <<loopResp, storeAtDequeue, processedCount, handed>>
    /\ UNCHANGED <<activityVars, receiverVars, workerVars, hostVars>>

\* a plausible bug: the item whose save failed is put back on the queue
LoopSaveFails_Requeue ==
    /\ ProcessAlive
    /\ loopPc = "save"
    /\ loopPc' = "check"
    /\ loopItem' = None
    /\ loopRec' = None
    /\ completedCount' = completedCount + 1
    /\ lastOutcome' = "PersistenceError"
    /\ newsQueue' = Append(newsQueue, loopItem)
    /\ UNCHANGED <<loopResp, storeAtDequeue, processedCount, handed>>
    /\ UNCHANGED <<receivedSignals, lastSubmit>>
    /\ UNCHANGED <<gatewayVars, activityVars, workerVars, hostVars>>

\* a plausible bug: ProcessNewsSignal has no catch and the loop's catch
\* rethrows, so the exception of the save ends ExecuteAsync
LoopSaveFails_Rethrown ==
    /\ ProcessAlive
    /\ loopPc = "save"
    /\ loopPc' = "done"
    /\ loopItem' = None
    /\ loopRec' = None
    /\ completedCount' = completedCount + 1
    /\ lastOutcome' = "PersistenceError"
    /\ UNCHANGED <<loopResp, storeAtDequeue, processedCount, handed>>
    /\ UNCHANGED <<gatewayVars, activityVars, receiverVars, workerVars, hostVars>>

\* SaveAnalyzedNewsAsync throws (connection, statement, numeric overflow):
\* logged and rethrown there, caught and logged by ProcessNewsSignal
LoopSaveFails ==
    /\ ProcessAlive
    /\ loopPc = "save"
    /\ loopPc' = "check"
    /\ loopItem' = None
    /\ loopRec' = None
    /\ completedCount' = completedCount + 1
    /\ lastOutcome' = "PersistenceError"
    /\ UNCHANGED <<loopResp, storeAtDequeue, processedCount, handed>>
    /\ UNCHANGED <<gatewayVars, activityVars, receiverVars, workerVars, hostVars>>

(***************************************************************************)
(* Worker.ExecuteAsync: obtains a handle to a Running workflow instance,   *)
(* waits for the instance or for its stopping token, then stops it.        *)
(***************************************************************************)
\* a plausible bug: Running is taken for a status of a finished instance
TerminalStatuses_WithRunning == {"Canceled", "Terminated", "Failed", "Completed", "Running"}

\* a plausible bug: Canceled is missing from the test
TerminalStatuses_NoCanceled == {"Terminated", "Failed", "Completed"}

\* the statuses for which the startup block creates a new instance
TerminalStatuses == {"Canceled", "Terminated", "Failed", "Completed"}

\* StartWorkflowAsync under workflowId returns a handle
WorkerStarted ==
    /\ ProcessAlive
    /\ workerPc = "start"
    /\ LET r == StartWorkflowAsync(instances, workflowId, TRUE) IN
       /\ r.started
       /\ instances' = r.engine
       /\ handleId' = workflowId
       /\ created' = created \cup {workflowId}
    /\ workerPc' = "waiting"
    /\ UNCHANGED <<described, startError, cancelRequested, shutdownLog, stopTrace>>
    /\ UNCHANGED <<gatewayVars, activityVars, receiverVars, loopVars, hostVars>>

\* StartWorkflowAsync under workflowId throws an exception other than
\* WorkflowAlreadyStartedException: logged and rethrown out of ExecuteAsync
WorkerStartFails ==
    /\ ProcessAlive
    /\ workerPc = "start"
    /\ LET r == StartWorkflowAsync(instances, workflowId, FALSE) IN
       /\ ~r.started
       /\ startError' = r.error
    /\ workerPc' = "failed"
    /\ UNCHANGED <<instances, handleId, described, created, cancelRequested, shutdownLog, stopTrace>>
    /\ UNCHANGED <<gatewayVars, activityVars, receiverVars, loopVars, hostVars>>

\* StartWorkflowAsync under workflowId throws WorkflowAlreadyStartedException:
\* GetWorkflowHandle(workflowId), then DescribeAsync is sent
WorkerAlreadyStarted ==
    /\ ProcessAlive
    /\ workerPc = "start"
    /\ LET r == StartWorkflowAsync(instances, workflowId, TRUE) IN
       /\ ~r.started
       /\ r.error = "WorkflowAlreadyStartedException"
    /\ handleId' = workflowId
    /\ workerPc' = "describe"
    /\ UNCHANGED <<instances, described, created, startError, cancelRequested, shutdownLog, stopTrace>>
    /\ UNCHANGED <<gatewayVars, activityVars, receiverVars, loopVars, hostVars>>

\* DescribeAsync returns: a status of the test starts the creation of a new
\* instance under a minted id, any other status keeps the handle (attached)
WorkerDescribed ==
    /\ ProcessAlive
    /\ workerPc = "describe"
    /\ described' = instances[handleId]
    /\ workerPc' = IF instances[handleId] \in TerminalStatuses THEN "create" ELSE "waiting"
    /\ UNCHANGED <<instances, handleId, created, startError, cancelRequested, shutdownLog, stopTrace>>
    /\ UNCHANGED <<gatewayVars, activityVars, receiverVars, loopVars, hostVars>>

\* DescribeAsync throws: caught by the inner catch, which creates a new
\* instance under a minted id
WorkerDescribeFails ==
    /\ ProcessAlive
    /\ workerPc = "describe"
    /\ described' = "QueryFailed"
    /\ workerPc' = "fallback"
    /\ UNCHANGED <<instances, handleId, created, startError, cancelRequested, shutdownLog, stopTrace>>
    /\ UNCHANGED <<gatewayVars, activityVars, receiverVars, loopVars, hostVars>>

\* the StartWorkflowAsync that follows a finished status, under the id minted
\* at instant now: a handle, or an exception that the inner catch takes for a
\* failed status check
WorkerCreated(now, reachable) ==
    /\ ProcessAlive
    /\ workerPc = "create"
    /\ LET r == StartWorkflowAsync(instances, NewWorkflowId(now), reachable) IN
       IF r.started
       THEN /\ instances' = r.engine
            /\ handleId' = NewWorkflowId(now)
            /\ created' = created \cup {NewWorkflowId(now)}
            /\ workerPc' = "waiting"
       ELSE /\ workerPc' = "fallback"
            /\ UNCHANGED <<instances, handleId, created>>
    /\ UNCHANGED <<described, startError, cancelRequested, shutdownLog, stopTrace>>
    /\ UNCHANGED <<gatewayVars, activityVars, receiverVars, loopVars, hostVars>>

\* a plausible bug: the exception of the last creation is logged and swallowed
WorkerFallbackCreated_Swallow(now, reachable) ==
    /\ ProcessAlive
    /\ workerPc = "fallback"
    /\ LET r == StartWorkflowAsync(instances, NewWorkflowId(now), reachable) IN
       IF r.started
       THEN /\ instances' = r.engine
            /\ handleId' = NewWorkflowId(now)
            /\ created' = created \cup {NewWorkflowId(now)}
            /\ workerPc' = "waiting"
            /\ UNCHANGED startError
       ELSE /\ startError' = r.error
            /\ workerPc' = "waiting"
            /\ UNCHANGED <<instances, handleId, created>>
    /\ UNCHANGED <<described, cancelRequested, shutdownLog, stopTrace>>
    /\ UNCHANGED <<gatewayVars, activityVars, receiverVars, loopVars, hostVars>>

\* the StartWorkflowAsync of the inner catch, under the id minted at instant
\* now: a handle, or an exception that is logged and rethrown out of
\* ExecuteAsync
WorkerFallbackCreated(now, reachable) ==
    /\ ProcessAlive
    /\ workerPc = "fallback"
    /\ LET r == StartWorkflowAsync(instances, NewWorkflowId(now), reachable) IN
       IF r.started
       THEN /\ instances' = r.engine
            /\ handleId' = NewWorkflowId(now)
            /\ created' = created \cup {NewWorkflowId(now)}
            /\ workerPc' = "waiting"
            /\ UNCHANGED startError
       ELSE /\ startError' = r.error
            /\ workerPc' = "failed"
            /\ UNCHANGED <<instances, handleId, created>>
    /\ UNCHANGED <<described, cancelRequested, shutdownLog, stopTrace>>
    /\ UNCHANGED <<gatewayVars, activityVars, receiverVars, loopVars, hostVars>>

\* Task.WhenAny returns with the token cancelled: StopWorkflowAsync begins
\* and sends the get_signals_count query
WorkerStopRequested ==
    /\ ProcessAlive
    /\ workerPc = "waiting"
    /\ workerToken
    /\ workerPc' = "query"
    /\ stopTrace' = Append(stopTrace, "QueryAsync")
    /\ UNCHANGED <<engineVars, cancelRequested, shutdownLog>>
    /\ UNCHANGED <<gatewayVars, activityVars, receiverVars, loopVars, hostVars>>

\* Task.WhenAny returns with the instance closed and the token not
\* cancelled: awaiting the result throws; a cancelled instance is logged as
\* normal, any other failure is rethrown
WorkerSeesWorkflowEnd ==
    /\ ProcessAlive
    /\ workerPc = "waiting"
    /\ ~workerToken
    /\ wfStatus \in ClosedStatuses
    /\ workerPc' = IF wfStatus = "Canceled" THEN "done" ELSE "failed"
    /\ UNCHANGED <<engineVars, cancelRequested, shutdownLog, stopTrace>>
    /\ UNCHANGED <<gatewayVars, activityVars, receiverVars, loopVars, hostVars>>

\* QueryAsync returns the count: it is logged as the number of signals the
\* workflow processed, then CancelAsync is sent
WorkerQueried ==
    /\ ProcessAlive
    /\ workerPc = "query"
    /\ shutdownLog' = Append(shutdownLog,
          [message |-> "workflow processed {Count} signals",
           counter |-> "received", value |-> GetSignalsCount])
    /\ workerPc' = "cancel"
    /\ stopTrace' = Append(stopTrace, "CancelAsync")
    /\ UNCHANGED <<engineVars, cancelRequested>>
    /\ UNCHANGED <<gatewayVars, activityVars, receiverVars, loopVars, hostVars>>

\* QueryAsync or CancelAsync throws: a warning is logged, the method returns
WorkerStopFails ==
    /\ ProcessAlive
    /\ workerPc \in {"query", "cancel"}
    /\ workerPc' = "done"
    /\ UNCHANGED <<engineVars, cancelRequested, shutdownLog, stopTrace>>
    /\ UNCHANGED <<gatewayVars, activityVars, receiverVars, loopVars, hostVars>>

\* CancelAsync returns: the engine has recorded the cancellation request
WorkerCancelled ==
    /\ ProcessAlive
    /\ workerPc = "cancel"
    /\ cancelRequested' = TRUE
    /\ workerPc' = "done"
    /\ UNCHANGED <<engineVars, shutdownLog, stopTrace>>
    /\ UNCHANGED <<gatewayVars, activityVars, receiverVars, loopVars, hostVars>>

\* a plausible bug: the wait condition of RunAsync becomes true and the
\* workflow returns
WorkflowCancelled_Returns ==
    /\ ProcessAlive
    /\ wfStatus = "Running"
    /\ instances' = [instances EXCEPT ![handleId] = "Completed"]
    /\ UNCHANGED <<handleId, described, created, startError>>
    /\ UNCHANGED <<workerPc, cancelRequested, shutdownLog, stopTrace>>
    /\ UNCHANGED <<gatewayVars, activityVars, receiverVars, loopVars, hostVars>>

\* NewsListenerWorkflow.RunAsync: WaitConditionAsync(() => false) ends only
\* by the cancellation request, delivered through the hosted worker
WorkflowCancelled ==
    /\ ProcessAlive
    /\ wfStatus = "Running"
    /\ cancelRequested
    /\ instances' = [instances EXCEPT ![handleId] = "Canceled"]
    /\ UNCHANGED <<handleId, described, created, startError>>
    /\ UNCHANGED <<workerPc, cancelRequested, shutdownLog, stopTrace>>
    /\ UNCHANGED <<gatewayVars, activityVars, receiverVars, loopVars, hostVars>>

\* an instance is closed from outside this process (an operator, a timeout
\* set by the client that started it)
WorkflowClosedExternally(id, status) ==
    /\ instances[id] = "Running"
    /\ instances' = [instances EXCEPT ![id] = status]
    /\ UNCHANGED <<handleId, described, created, startError>>
    /\ UNCHANGED <<workerPc, cancelRequested, shutdownLog, stopTrace>>
    /\ UNCHANGED <<gatewayVars, activityVars, receiverVars, loopVars, hostVars>>

(***************************************************************************)
(* host.Run(): on a termination request (or a hosted service's failure)    *)
(* the generic host stops the hosted services in the reverse of their      *)
(* registration order, NewsAnalysisBackgroundService then Worker.  Each    *)
(* StopAsync cancels that service's stopping token and waits for its       *)
(* ExecuteAsync until it ends or the host's shutdown timeout elapses; the  *)
(* program sets no timeout, so the host's default (finite) one applies.    *)
(***************************************************************************)
HostShutdown ==
    /\ hostPc = "running"
    /\ hostPc' = "stopAnalysis"
    /\ loopToken' = TRUE
    /\ UNCHANGED <<drainExpired, workerToken>>
    /\ UNCHANGED <<gatewayVars, activityVars, receiverVars, loopVars, workerVars>>

HostAnalysisStopped ==
    /\ hostPc = "stopAnalysis"
    /\ loopPc = "done" \/ drainExpired
    /\ hostPc' = "stopWorker"
    /\ workerToken' = TRUE
    /\ UNCHANGED <<drainExpired, loopToken>>
    /\ UNCHANGED <<gatewayVars, activityVars, receiverVars, loopVars, workerVars>>

HostWorkerStopped ==
    /\ hostPc = "stopWorker"
    /\ workerPc \in {"done", "failed"} \/ drainExpired
    /\ hostPc' = "exited"
    /\ UNCHANGED <<drainExpired, loopToken, workerToken>>
    /\ UNCHANGED <<gatewayVars, activityVars, receiverVars, loopVars, workerVars>>

\* a plausible bug: the shutdown timeout is configured as infinite
DrainTimeout_Never ==
    /\ FALSE
    /\ UNCHANGED vars

\* the shutdown timeout elapses
DrainTimeout ==
    /\ hostPc \in {"stopAnalysis", "stopWorker"}
    /\ ~drainExpired
    /\ drainExpired' = TRUE
    /\ UNCHANGED <<hostPc, loopToken, workerToken>>
    /\ UNCHANGED <<gatewayVars, activityVars, receiverVars, loopVars, workerVars>>

(***************************************************************************)
(* Initial state: the table is empty (InitializeDatabaseAsync has run), no *)
(* hosted service has started, nothing was received.                       *)
(***************************************************************************)
InitService ==
    /\ store = {}
    /\ upserted = {}
    /\ firstRaw = [id \in RowIds |-> None]
    /\ lastEnr = [id \in RowIds |-> None]
    /\ raced = {}
    /\ rewritten = {}
    /\ act = [a \in Activities |-> ActIdle]
    /\ receivedSignals = <<>>
    /\ newsQueue = <<>>
    /\ lastSubmit = None
    /\ loopPc = "check"
    /\ loopItem = None
    /\ loopResp = None
    /\ loopRec = None
    /\ storeAtDequeue = {}
    /\ processedCount = 0
    /\ completedCount = 0
    /\ handed = <<>>
    /\ lastOutcome = "NoneYet"
    /\ loopToken = FALSE
    /\ workerToken = FALSE
    /\ workerPc = "start"
    /\ handleId = NoHandle
    /\ described = "NotAsked"
    /\ created = {}
    /\ startError = ""
    /\ cancelRequested = FALSE
    /\ shutdownLog = <<>>
    /\ stopTrace = <<>>
    /\ hostPc = "running"
    /\ drainExpired = FALSE

\* the engine holds no instance yet: the first start of the service
Init ==
    /\ InitService
    /\ instances = [id \in WorkflowIds |-> "None"]

(***************************************************************************)
(* The gateway under concurrent activity executions.                       *)
(***************************************************************************)
NextGateway ==
    \/ \E a \in Activities, sd \in GatewayEnvelopes : ActivityStart(a, sd)
    \/ \E a \in Activities, resp \in GatewayResponses, now \in Instants :
          ActivityAnalyzed(a, resp, now)
    \/ \E a \in Activities : ActivitySaved(a)
    \/ \E a \in Activities : ActivitySaveFails(a)

SpecGateway == Init /\ [][NextGateway]_vars

RowsOf(id) == {r \in store : r.id = id}

\* C1: after any sequence of upserts the table holds exactly one row for
\* each id that was ever upserted, and no row for any other id.
C1_OneRowPerId ==
    \A id \in RowIds : Cardinality(RowsOf(id)) = IF id \in upserted THEN 1 ELSE 0

\* an id was upserted again with other enrichment values and has its one
\* row, beside the row of another id
C1_Witness ==
    /\ \E id \in rewritten : Cardinality(RowsOf(id)) = 1
    /\ Cardinality(store) = 2

\* C2: a row's raw columns are those written by the first upsert of its id,
\* whatever later upserts carried.
C2_RawWriteOnce ==
    \A r \in store : Raw(r) = firstRaw[r.id]

\* a later upsert carried other raw values and other enrichment values
C2_Witness ==
    \E r \in store : /\ r.id \in rewritten
                     /\ r.title = BindParameters(
                          ConvertToAnalyzedNewsRecord(EnvA,
                              DeserializeAnalysis(ContentA), 1)).title
                     /\ r.sector = "Energy"

\* C3: under any interleaving of calls for one id, the row's enrichment
\* columns are all those of the last statement executed for the id and its
\* raw columns those of the first.
C3_LastWriterWins ==
    \A r \in store : /\ Enr(r) = lastEnr[r.id]
                     /\ Raw(r) = firstRaw[r.id]

\* two calls for the same id, with other raw and other enrichment values,
\* were in flight together and both statements were executed
C3_Witness ==
    \E r \in store : r.id \in raced /\ r.id \in rewritten


(***************************************************************************)
(* The pipeline while the host runs: signals, loop, adapter, gateway.      *)
(***************************************************************************)
PipelineEnvelopes == {EnvA, EnvNoId, EnvNoTitle}

Next ==
    \/ WorkerStarted
    \/ WorkerStartFails
    \/ \E sd \in PipelineEnvelopes : HandleNewsSignal(sd)
    \/ LoopCheck
    \/ LoopDequeue
    \/ LoopIdleElapsed
    \/ \E resp \in Responses, now \in Instants : LoopAnalyzed(resp, now)
    \/ LoopSaved
    \/ LoopSaveFails

Spec == Init /\ [][Next]_vars

(***************************************************************************)
(* The whole service with shutdown, on one envelope and two responses.     *)
(***************************************************************************)
ShutdownEnvelopes == {EnvA}
ShutdownResponses == {Transport, HttpBody(BodyContent(ContentObject(ContentA)))}

NextShutdown ==
    \/ WorkerStarted
    \/ WorkerStartFails
    \/ \E sd \in ShutdownEnvelopes : HandleNewsSignal(sd)
    \/ LoopCheck
    \/ LoopDequeue
    \/ LoopIdleElapsed
    \/ LoopIdleCancelled
    \/ \E resp \in ShutdownResponses, now \in Instants : LoopAnalyzed(resp, now)
    \/ LoopSaved
    \/ LoopSaveFails
    \/ WorkerStopRequested
    \/ WorkerSeesWorkflowEnd
    \/ WorkerQueried
    \/ WorkerStopFails
    \/ WorkerCancelled
    \/ WorkflowCancelled
    \/ \E status \in {"Canceled", "Terminated"} : WorkflowClosedExternally(workflowId, status)
    \/ HostShutdown
    \/ HostAnalysisStopped
    \/ HostWorkerStopped
    \/ DrainTimeout

SpecShutdown == Init /\ [][NextShutdown]_vars

\* the host's own steps are taken; every awaited operation may hang
LiveShutdown ==
    /\ SpecShutdown
    /\ WF_vars(HostAnalysisStopped)
    /\ WF_vars(HostWorkerStopped)
    /\ WF_vars(DrainTimeout)


(***************************************************************************)
(* Startup of Worker against an engine that earlier runs of the service    *)
(* (or another process running it) have left instances in.                 *)
(***************************************************************************)
InitialStatuses == {"None", "Running", "Canceled", "Failed", "TimedOut"}

InitStartup ==
    /\ InitService
    /\ instances \in [WorkflowIds -> InitialStatuses]

NextStartup ==
    \/ WorkerStarted
    \/ WorkerStartFails
    \/ WorkerAlreadyStarted
    \/ WorkerDescribed
    \/ WorkerDescribeFails
    \/ \E now \in Instants, reachable \in BOOLEAN : WorkerCreated(now, reachable)
    \/ \E now \in Instants, reachable \in BOOLEAN : WorkerFallbackCreated(now, reachable)
    \/ WorkerSeesWorkflowEnd
    \/ \E id \in WorkflowIds, status \in ExternalCloses : WorkflowClosedExternally(id, status)
    \/ \E sd \in ShutdownEnvelopes : HandleNewsSignal(sd)

SpecStartup == InitStartup /\ [][NextStartup]_vars

\* the startup block has ended with a handle
StartupEnded == workerPc \notin {"start", "describe", "create", "fallback", "failed"}

\* C12: when the instance under workflowId already exists and DescribeAsync
\* reports it Running, the worker keeps the handle to that instance and
\* starts no instance: startup goes on to wait with the handle of workflowId
\* and this process has created nothing.
C12_AttachesToRunning ==
    described = "Running" =>
        /\ workerPc \notin {"create", "fallback"}
        /\ handleId = workflowId
        /\ created = {}

\* the worker attached to a Running instance and a signal was received by it
C12_Witness ==
    /\ described = "Running"
    /\ workerPc = "waiting"
    /\ wfStatus = "Running"
    /\ GetSignalsCount = 1

\* the statuses the controller's state machine calls Terminal
SpecTerminal == {"Completed", "Canceled", "Failed"}

\* C13: when the instance under workflowId exists and its status is a
\* Terminal value, or the status query fails, the worker creates an instance
\* under a minted id: it is creating one, or the creation failed with an
\* error, or it holds the handle of a minted id that this process created.
C13_MintsFreshInstance ==
    described \in SpecTerminal \cup {"QueryFailed"} =>
        \/ workerPc \in {"create", "fallback"}
        \/ workerPc = "failed" /\ startError # ""
        \/ /\ handleId \in {NewWorkflowId(now) : now \in Instants}
           /\ handleId \in created

\* startup found a Canceled instance and ended with a Running instance under
\* a minted id
C13_Witness ==
    /\ described = "Canceled"
    /\ workerPc = "waiting"
    /\ handleId # workflowId
    /\ wfStatus = "Running"

\* C14: when the creation under workflowId fails with an error other than
\* already-exists, or the fallback creation fails, ExecuteAsync ends with
\* that error; startup never ends without a handle.
C14_UnreachableIsFatal ==
    /\ startError # "" => workerPc = "failed"
    /\ StartupEnded => handleId # NoHandle /\ startError = ""
    /\ workerPc = "failed" /\ handleId = NoHandle => startError = "RpcException"

\* the status query failed and the fallback creation failed: fatal
C14_Witness ==
    /\ described = "QueryFailed"
    /\ startError = "RpcException"
    /\ workerPc = "failed"

MintedIds == {NewWorkflowId(now) : now \in Instants}

\* C28: the worker attaches to the existing instance only when its status is
\* Running: when startup has ended with the handle of workflowId after a
\* status query, the status reported was Running.
C28_AttachesOnlyToRunning ==
    (StartupEnded /\ handleId = workflowId /\ described # "NotAsked") =>
        described = "Running"

\* C29: every minted id differs from every id that exists in the engine:
\* when the worker creates an instance under a minted id, no instance has
\* that id, and the creation never ends ExecuteAsync with already-exists.
C29_MintedIdIsFresh ==
    /\ workerPc \in {"create", "fallback"} =>
          \A id \in MintedIds : instances[id] = "None"
    /\ startError # "WorkflowAlreadyStartedException"

(***************************************************************************)
(* Startup followed by shutdown: the worker's handle, created or attached, *)
(* and the stop of its instance.                                           *)
(***************************************************************************)
NextLifecycle ==
    \/ WorkerStarted
    \/ WorkerStartFails
    \/ WorkerAlreadyStarted
    \/ WorkerDescribed
    \/ WorkerDescribeFails
    \/ \E now \in Instants, reachable \in BOOLEAN : WorkerCreated(now, reachable)
    \/ \E now \in Instants, reachable \in BOOLEAN : WorkerFallbackCreated(now, reachable)
    \/ WorkerSeesWorkflowEnd
    \/ \E id \in WorkflowIds, status \in ExternalCloses : WorkflowClosedExternally(id, status)
    \/ WorkerStopRequested
    \/ WorkerQueried
    \/ WorkerStopFails
    \/ WorkerCancelled
    \/ WorkflowCancelled
    \/ LoopCheck
    \/ LoopDequeue
    \/ LoopIdleElapsed
    \/ LoopIdleCancelled
    \/ HostShutdown
    \/ HostAnalysisStopped
    \/ HostWorkerStopped
    \/ DrainTimeout

SpecLifecycle == InitStartup /\ [][NextLifecycle]_vars

\* C25: the controller instance never completes on its own: a Running
\* instance stops being Running only by the cancellation this process
\* requested or by a close from outside (cancellation, termination,
\* timeout); an absent instance only becomes Running; a closed instance
\* keeps its status, and its id becomes Running again only by the start of a
\* new instance under it.
C25_RunsUntilCancelled ==
    [][\A id \in WorkflowIds :
         /\ (instances[id] = "Running" /\ instances'[id] # "Running") =>
               \/ cancelRequested /\ id = handleId /\ instances'[id] = "Canceled"
               \/ \E status \in ExternalCloses : WorkflowClosedExternally(id, status)
         /\ instances[id] = "None" => instances'[id] \in {"None", "Running"}
         /\ (instances[id] \in ClosedStatuses /\ instances'[id] # instances[id]) =>
               /\ instances'[id] = "Running"
               /\ id \in created' \ created]_vars

\* the instance this process created stayed Running until the worker's
\* cancellation request and is Canceled
C25_Witness ==
    /\ handleId \in created
    /\ cancelRequested
    /\ wfStatus = "Canceled"
    /\ workerPc = "done"

\* C30: when StopWorkflowAsync has run and the worker has ended, it has
\* called CancelAsync on its instance exactly once, whether or not the count
\* query answered.
C30_CancelsExactlyOnce ==
    (workerPc = "done" /\ stopTrace # <<>>) =>
        Cardinality({i \in DOMAIN stopTrace : stopTrace[i] = "CancelAsync"}) = 1

(***************************************************************************)
(* Claims about the adapter, the receiver and the queue (Spec).            *)
(***************************************************************************)
ConfidenceInRange(c) == 0 <= c /\ c <= 100000

\* C4: a response whose confidence lies outside [0,1] never reaches the
\* gateway: no save is entered for it and no stored row has a confidence
\* outside [0,1].
C4_ConfidenceBound ==
    /\ loopPc = "save" => ConfidenceInRange(loopRec.confidence)
    /\ \A r \in store : ConfidenceInRange(r.confidence)

\* the constraints Submit is to enforce
ValidEnvelope(signalData) == signalData.id # "" /\ signalData.data.title # ""

\* C5: an envelope with an empty id or an empty title is rejected with a
\* ValidationError and is neither counted, recorded nor enqueued.
C5_ValidationGate ==
    /\ lastSubmit # None =>
          (~ValidEnvelope(lastSubmit.envelope) => lastSubmit.outcome = "ValidationError")
    /\ \A i \in DOMAIN receivedSignals : ValidEnvelope(receivedSignals[i])
    /\ \A i \in DOMAIN newsQueue : ValidEnvelope(newsQueue[i])

\* the capacity the bounded signal queue is to have
QueueCapacity == 1

\* C6: the signal queue never holds more items than its capacity.
C6_QueueBounded == Len(newsQueue) <= QueueCapacity

\* C7: when the adapter call for an item fails (transport error, non-success
\* status, empty or unparsable response) no save is entered for the item and
\* the table stays as it was when the item was dequeued.
C7_NoWriteOnAdapterFailure ==
    loopResp \in FailedResponses => (loopPc # "save" /\ store = storeAtDequeue)

\* an item's adapter call failed while the table already held a row
C7_Witness ==
    /\ loopResp = HttpError
    /\ loopPc = "check"
    /\ store # {}
    /\ processedCount = 2

LacksRequiredField(resp) ==
    /\ resp \in ObjectResponses
    /\ LET obj == resp.body.choices[1].message.content.object
       IN "sector" \notin DOMAIN obj \/ "sentiment" \notin DOMAIN obj

\* C8: a response whose JSON content lacks sector or sentiment makes the
\* analysis fail: no save is entered for it and nothing is persisted from it.
C8_MissingFieldRejected ==
    (loopResp # None /\ LacksRequiredField(loopResp)) =>
        (loopPc # "save" /\ store = storeAtDequeue)

(***************************************************************************)
(* The queue under fair scheduling: the loop takes its steps, and the      *)
(* adapter and the gateway calls return (or time out and throw).           *)
(***************************************************************************)
QueueEnvelopes == {EnvA, EnvNoTitle}

NextQueue ==
    \/ WorkerStarted
    \/ \E sd \in QueueEnvelopes : HandleNewsSignal(sd)
    \/ LoopCheck
    \/ LoopDequeue
    \/ LoopIdleElapsed
    \/ \E resp \in ShutdownResponses, now \in Instants : LoopAnalyzed(resp, now)
    \/ LoopSaved
    \/ LoopSaveFails

SpecQueue == Init /\ [][NextQueue]_vars

LiveQueue ==
    /\ SpecQueue
    /\ WF_vars(LoopCheck)
    /\ WF_vars(LoopDequeue)
    /\ WF_vars(LoopIdleElapsed)
    /\ WF_vars(\E resp \in ShutdownResponses, now \in Instants : LoopAnalyzed(resp, now))
    /\ WF_vars(LoopSaved \/ LoopSaveFails)

\* calls in flight: the loop's and those of activity executions
AdapterCallsInFlight ==
    (IF loopPc = "analyze" THEN 1 ELSE 0)
      + Cardinality({a \in Activities : act[a].pc = "analyze"})
GatewayCallsInFlight ==
    (IF loopPc = "save" THEN 1 ELSE 0)
      + Cardinality({a \in Activities : act[a].pc = "save"})

\* C15: at most one adapter call and at most one gateway call are in flight,
\* and an item is dequeued only when ProcessNewsSignal has returned for every
\* item dequeued before: the one unfinished item is the one the loop is
\* analysing or saving.
C15_OneCallInFlight ==
    /\ AdapterCallsInFlight <= 1
    /\ GatewayCallsInFlight <= 1
    /\ processedCount - completedCount =
          IF loopPc \in {"analyze", "save"} THEN 1 ELSE 0

\* the gateway call of the first item is in flight while the second item waits
C15_Witness ==
    /\ loopPc = "save"
    /\ processedCount = 1
    /\ Len(newsQueue) = 1

CountOf(seq, e) == Cardinality({i \in DOMAIN seq : seq[i] = e})

C20_RowIdIsEnvelopeId ==
    /\ loopPc = "save" => loopRec.id = loopItem.id
    /\ \A r \in store : \E i \in DOMAIN handed : r.id = handed[i].id

C21_NoRetryNoRequeue ==
    [][/\ (loopPc' = "analyze" /\ loopVars' # loopVars) => loopPc = "dequeue"
       /\ (loopPc' = "save" /\ loopVars' # loopVars) => loopPc = "analyze"
       /\ completedCount' # completedCount =>
             /\ newsQueue' = newsQueue
             /\ processedCount' = processedCount]_vars

\* the only item's save failed: the loop is idle and the queue is empty
C21_Witness ==
    /\ lastOutcome = "PersistenceError"
    /\ loopPc = "idle"
    /\ newsQueue = <<>>
    /\ processedCount = 1

\* C22: an adapter error or a persistence error never stops the loop: after
\* the n-th item ended in such an error, with an item queued, the loop
\* dequeues a further item.
C22_LoopSurvivesErrors ==
    \A n \in 1..MaxSignals :
        (/\ lastOutcome \in {"AdapterError", "PersistenceError"}
         /\ completedCount = n
         /\ newsQueue # <<>>) ~> (processedCount > n)

\* after a persistence error on the first item the second was dequeued
C22_Witness ==
    /\ lastOutcome = "PersistenceError"
    /\ completedCount = 1
    /\ processedCount = 2

\* the number of items the ring buffer of recent items is to retain
RecentCapacity == 1

Min(a, b) == IF a < b THEN a ELSE b

\* C26: the recent-items query with parameter N returns the min(N, k) most
\* recent of the k items recorded so far, in arrival order, and the
\* controller retains no more items than the ring buffer's capacity.
C26_RecentItemsBounded ==
    /\ \A n \in 0..(MaxSignals + 1) :
          LET k == Len(handed) + Len(newsQueue)
              recorded == handed \o newsQueue
              answer == GetLatestSignals(n)
          IN /\ Len(answer) = Min(n, k)
             /\ \A i \in 1..Len(answer) : answer[i] = recorded[k - Len(answer) + i]
    /\ GetLatestSignals(DefaultLatestCount) = TakeLast(handed \o newsQueue, DefaultLatestCount)
    /\ Len(receivedSignals) <= RecentCapacity

(***************************************************************************)
(* Claims about shutdown (SpecShutdown, LiveShutdown).                     *)
(***************************************************************************)
\* C9: once shutdown has begun the process eventually exits, whatever
\* adapter call, gateway write or engine call is in flight and never returns.
C9_ExitsAfterShutdown == (hostPc # "running") ~> (hostPc = "exited")

\* the process has exited with the adapter call still in flight
C9_Witness == hostPc = "exited" /\ loopPc = "analyze"

\* C10: processed items never outnumber received items, and a completed
\* StopWorkflowAsync has logged a received count and a processed count with
\* processed <= received.
C10_CountsLogged ==
    /\ processedCount <= GetSignalsCount
    /\ (workerPc = "done" /\ cancelRequested) =>
          \E i, j \in DOMAIN shutdownLog :
             /\ shutdownLog[i].counter = "received"
             /\ shutdownLog[j].counter = "processed"
             /\ shutdownLog[j].value <= shutdownLog[i].value

\* C11: once a termination request has been received every later Submit is
\* rejected with ShuttingDownError: the last envelope handed to the signal
\* entry point after shutdown began was not accepted.
C11_RejectsAfterShutdown ==
    (lastSubmit # None /\ lastSubmit.afterShutdown) =>
        lastSubmit.outcome = "ShuttingDownError"

\* C23: the cancellation signal interrupts the stage that is active: once the
\* loop's token is cancelled, an adapter call in flight is not completed into
\* a gateway call.
C23_CancellationInterrupts ==
    [][loopToken => ~(loopPc = "analyze" /\ loopPc' = "save")]_vars

\* C24: after a termination request the loop keeps draining: when it ends,
\* the items that were queued when the request arrived have been dequeued,
\* unless the drain budget has expired.
C24_DrainsQueue ==
    [][(/\ loopPc # "done"
        /\ loopPc' = "done"
        /\ (lastSubmit = None \/ ~lastSubmit.afterShutdown))
          => (newsQueue = <<>> \/ drainExpired)]_vars

\* C27: the final counts are logged after cancellation has been requested on
\* the controller's instance.
C27_CountsLoggedAfterCancel ==
    shutdownLog # <<>> => cancelRequested

=============================================================================
